---- MODULE Spec2Model ----
(***************************************************************************)
(* GOV.JE Weather integration for Home Assistant.                          *)
(*                                                                         *)
(* Part 1 models the poller: async_setup_entry, the options flow, the      *)
(* options update listener and the refresh cycle of                        *)
(* JerseyWeatherDataCoordinator (custom_components/govje_weather/          *)
(* __init__.py and config_flow.py).  The refresh bookkeeping inherited     *)
(* from homeassistant's DataUpdateCoordinator (data, last_update_success,  *)
(* the refresh timer) is modelled as the coordinator object's fields.      *)
(***************************************************************************)
EXTENDS Integers, Sequences, FiniteSets, TLC

\* ---------------------------------------------------------------- bounds
\* Number of fetches that may be started in one behaviour.
MaxCycles == 4
\* Cap on the number of fetches of one coordinator executing at once.
MaxInFlight == 2

\* ------------------------------------------------------- program constants
DEFAULT_SCAN_INTERVAL == 10
MIN_SCAN_INTERVAL == 5
MAX_SCAN_INTERVAL == 1440

\* ------------------------------------------------------------ input sets
\* Documents the endpoint can serve.
DocIds == {"docA", "docB"}
\* coordinator.data before any successful fetch.
NoData == "None"
\* entry.options without a "scan_interval" key.
NoOption == 0 - 1
\* scan_interval values submitted to the options flow.
ScanInputs == {4, 5, 30, 1440, 1441}

Http(status, body, doc) == [kind |-> "http", status |-> status, body |-> body, doc |-> doc]
ClientErrorResp == [kind |-> "client_error", status |-> 0, body |-> "none", doc |-> NoData]
TimeoutResp == [kind |-> "timeout", status |-> 0, body |-> "none", doc |-> NoData]

\* What session.get(REMOTE_URL) followed by resp.json() can meet.
\* body: "json" parses, "badjson" makes resp.json() raise JSONDecodeError,
\* "badtype" makes it raise ContentTypeError (a ClientError).
Responses ==
    {Http(200, "json", d) : d \in DocIds}
    \cup {Http(200, "badjson", NoData), Http(200, "badtype", NoData),
          Http(404, "json", "docA"), Http(500, "json", "docA"),
          ClientErrorResp, TimeoutResp}

\* The spec's Failure class: non-200 status, transport error, unparseable body.
IsFailureResp(resp) ==
    \/ resp.kind # "http"
    \/ resp.status # 200
    \/ resp.body # "json"

Returned(v) == [raised |-> "none", value |-> v]
Raised(exc) == [raised |-> exc, value |-> NoData]

\* JerseyWeatherDataCoordinator._fetch_remote_data
_fetch_remote_data(resp) ==
    IF resp.kind = "client_error" THEN Raised("ClientError")
    ELSE IF resp.kind = "timeout" THEN Raised("TimeoutError")
    ELSE IF resp.status # 200 THEN Raised("UpdateFailed")
    ELSE IF resp.body = "badtype" THEN Raised("ClientError")
    ELSE IF resp.body = "badjson" THEN Raised("JSONDecodeError")
    ELSE Returned(resp.doc)

\* A wrapper that only converts aiohttp.ClientError.
_async_update_data_ClientErrorOnly(resp) ==
    LET r == _fetch_remote_data(resp)
    IN  IF r.raised = "ClientError" THEN Raised("UpdateFailed") ELSE r

\* JerseyWeatherDataCoordinator._async_update_data
_async_update_data(resp) ==
    LET r == _fetch_remote_data(resp)
    IN  IF r.raised # "none" THEN Raised("UpdateFailed") ELSE r

\* entry.options.get("scan_interval", DEFAULT_SCAN_INTERVAL.total_seconds() // 60)
ScanIntervalOf(opts) == IF opts = NoOption THEN DEFAULT_SCAN_INTERVAL ELSE opts

VARIABLES
    setup,                \* position of async_setup_entry
    stored,               \* hass.data[DOMAIN][entry_id] holds the coordinator
    platforms,            \* weather and sensor platforms forwarded
    listener,             \* update_listener registered on the entry
    returnedTrue,         \* async_setup_entry returned True
    options,              \* entry.options["scan_interval"] or NoOption
    listenerPending,      \* an options update awaits update_listener
    flowResult,           \* last result of OptionsFlowHandler.async_step_init
    update_interval,      \* coordinator.update_interval, minutes
    data,                 \* coordinator.data
    last_update_success,  \* coordinator.last_update_success
    timerArmed,           \* the coordinator's refresh timer is scheduled
    inFlight,             \* fetches of this coordinator that are executing
    lastResp,             \* response met by the last completed fetch
    lastResult,           \* outcome of the last completed _async_update_data
    lastGood,             \* document of the most recent successful fetch
    firstRefresh,         \* outcome of the startup fetch: "none", "ok", "failed"
    cycles,               \* fetches started so far
    call                  \* the last read of the weather entity and its result

pollerVars == <<setup, stored, platforms, listener, returnedTrue, options,
                listenerPending, flowResult, update_interval, data,
                last_update_success, timerArmed, inFlight, lastResp,
                lastResult, lastGood, firstRefresh, cycles>>

weatherVars == <<call>>

vars == <<pollerVars, weatherVars>>

NoResp == [kind |-> "none", status |-> 0, body |-> "none", doc |-> NoData]
NoCall == [op |-> "none"]
NoFlow == [type |-> "none", error |-> "none", limit |-> 0, input |-> NoOption, data |-> NoOption]

Init ==
    /\ setup = "not_started"
    /\ stored = FALSE
    /\ platforms = FALSE
    /\ listener = FALSE
    /\ returnedTrue = FALSE
    /\ options = NoOption
    /\ listenerPending = FALSE
    /\ flowResult = NoFlow
    /\ update_interval = DEFAULT_SCAN_INTERVAL
    /\ data = NoData
    /\ last_update_success = TRUE
    /\ timerArmed = FALSE
    /\ inFlight = 0
    /\ lastResp = NoResp
    /\ lastResult = Returned(NoData)
    /\ lastGood = NoData
    /\ firstRefresh = "none"
    /\ cycles = 0
    /\ call = NoCall

\* ------------------------------------------------------------ options flow
ShowForm(input, error, limit) ==
    [type |-> "form", error |-> error, limit |-> limit, input |-> input, data |-> NoOption]
CreateEntry(input, stored_value) ==
    [type |-> "create_entry", error |-> "none", limit |-> 0, input |-> input,
     data |-> stored_value]

\* An options step that clamps instead of rejecting.
async_step_init_Clamping(scan_interval) ==
    IF scan_interval < MIN_SCAN_INTERVAL THEN CreateEntry(scan_interval, MIN_SCAN_INTERVAL)
    ELSE IF scan_interval > MAX_SCAN_INTERVAL THEN CreateEntry(scan_interval, MAX_SCAN_INTERVAL)
    ELSE CreateEntry(scan_interval, scan_interval)

\* OptionsFlowHandler.async_step_init with user_input = {"scan_interval": v}
async_step_init(scan_interval) ==
    IF scan_interval < MIN_SCAN_INTERVAL
    THEN ShowForm(scan_interval, "Value must be at least", MIN_SCAN_INTERVAL)
    ELSE IF scan_interval > MAX_SCAN_INTERVAL
    THEN ShowForm(scan_interval, "Value must be at most", MAX_SCAN_INTERVAL)
    ELSE CreateEntry(scan_interval, scan_interval)

coordVars == <<update_interval, data, last_update_success, timerArmed, inFlight,
               lastResp, lastResult, lastGood, firstRefresh, cycles>>
setupVars == <<setup, stored, platforms, listener, returnedTrue>>

\* The options form is submitted.  A created entry replaces entry.options and
\* the config entry then calls its registered update listeners.
OptionsSubmit ==
    \E v \in ScanInputs :
        LET res == async_step_init(v)
        IN  /\ flowResult' = res
            /\ IF res.type = "create_entry"
               THEN /\ options' = res.data
                    /\ listenerPending' = (listenerPending \/ (listener /\ res.data # options))
               ELSE UNCHANGED <<options, listenerPending>>
            /\ UNCHANGED <<setupVars, coordVars, weatherVars>>

\* async_step_init with user_input = None: the form is shown with the current
\* value as default.
OptionsShow ==
    /\ flowResult' = ShowForm(ScanIntervalOf(options), "none", 0)
    /\ UNCHANGED <<options, listenerPending, setupVars, coordVars, weatherVars>>

\* ---------------------------------------------------------- refresh cycle
\* A failure that drops the cached document.
Publish_ClearsOnFailure(r, old) == IF r.raised = "none" THEN r.value ELSE NoData

\* coordinator.data after a cycle: self.data = await self._async_update_data()
\* assigns only when the call returns.
Publish(r, old) == IF r.raised = "none" THEN r.value ELSE old

\* The end of one refresh of the coordinator with the response it met.
RefreshDone(resp) ==
    LET r == _async_update_data(resp)
    IN  /\ lastResp' = resp
        /\ lastResult' = r
        /\ data' = Publish(r, data)
        /\ lastGood' = IF r.raised = "none" THEN r.value ELSE lastGood
        /\ last_update_success' = (r.raised = "none")
        /\ inFlight' = inFlight - 1

\* A first refresh that reports nothing to its caller.
FirstRefreshRaises_Never(r) == FALSE

\* coordinator.async_config_entry_first_refresh() raises when the fetch failed.
FirstRefreshRaises(r) == r.raised # "none"

\* async_setup_entry up to its first await: the coordinator is created with
\* the configured interval and the initial fetch is started.  A setup that
\* failed is retried by the config entry.
SetupStart ==
    /\ setup \in {"not_started", "failed"}
    /\ cycles < MaxCycles
    /\ setup' = "first_refresh"
    /\ update_interval' = ScanIntervalOf(options)
    /\ data' = NoData
    /\ lastGood' = NoData
    /\ last_update_success' = TRUE
    /\ timerArmed' = FALSE
    /\ inFlight' = 1
    /\ firstRefresh' = "none"
    /\ cycles' = cycles + 1
    /\ UNCHANGED <<stored, platforms, listener, returnedTrue, options,
                   listenerPending, flowResult, lastResp, lastResult, weatherVars>>

\* The initial fetch ends.  On failure async_setup_entry is left by the
\* exception; on success the coordinator is stored and the platforms are
\* forwarded.
SetupFirstRefreshDone ==
    \E resp \in Responses :
        /\ setup = "first_refresh"
        /\ RefreshDone(resp)
        /\ firstRefresh' = IF _async_update_data(resp).raised = "none" THEN "ok" ELSE "failed"
        /\ IF FirstRefreshRaises(_async_update_data(resp))
           THEN /\ setup' = "failed"
                /\ UNCHANGED stored
           ELSE /\ setup' = "forwarding"
                /\ stored' = TRUE
        /\ UNCHANGED <<platforms, listener, returnedTrue, options, listenerPending,
                       flowResult, update_interval, timerArmed, cycles, weatherVars>>

\* The platforms are set up (their entities subscribe to the coordinator,
\* which schedules the refresh timer), the update listener is registered and
\* async_setup_entry returns True.
SetupForwardDone ==
    /\ setup = "forwarding"
    /\ setup' = "done"
    /\ platforms' = TRUE
    /\ listener' = TRUE
    /\ returnedTrue' = TRUE
    /\ timerArmed' = TRUE
    /\ UNCHANGED <<stored, options, listenerPending, flowResult, update_interval,
                   data, last_update_success, inFlight, lastResp, lastResult,
                   lastGood, firstRefresh, cycles, weatherVars>>

\* A listener that refreshes at once instead of rescheduling.
update_listener_Refreshes ==
    /\ listenerPending
    /\ stored
    /\ cycles < MaxCycles
    /\ inFlight < MaxInFlight
    /\ listenerPending' = FALSE
    /\ update_interval' = ScanIntervalOf(options)
    /\ timerArmed' = FALSE
    /\ inFlight' = inFlight + 1
    /\ cycles' = cycles + 1
    /\ UNCHANGED <<setupVars, options, flowResult, data, last_update_success,
                   lastResp, lastResult, lastGood, firstRefresh, weatherVars>>

\* update_listener: the new interval is set and the next tick is rescheduled.
update_listener ==
    /\ listenerPending
    /\ stored
    /\ listenerPending' = FALSE
    /\ update_interval' = ScanIntervalOf(options)
    /\ timerArmed' = TRUE
    /\ UNCHANGED <<setupVars, options, flowResult, data, last_update_success,
                   inFlight, lastResp, lastResult, lastGood, firstRefresh, cycles,
                   weatherVars>>

\* The refresh timer fires: the timer is consumed and a fetch starts.
Tick ==
    /\ setup = "done"
    /\ timerArmed
    /\ cycles < MaxCycles
    /\ inFlight < MaxInFlight
    /\ timerArmed' = FALSE
    /\ inFlight' = inFlight + 1
    /\ cycles' = cycles + 1
    /\ UNCHANGED <<setupVars, options, listenerPending, flowResult, update_interval,
                   data, last_update_success, lastResp, lastResult, lastGood,
                   firstRefresh, weatherVars>>

\* A timer-started fetch ends; the coordinator schedules the next tick.
FetchDone ==
    \E resp \in Responses :
        /\ setup = "done"
        /\ inFlight > 0
        /\ RefreshDone(resp)
        /\ timerArmed' = TRUE
        /\ UNCHANGED <<setupVars, options, listenerPending, flowResult,
                       update_interval, firstRefresh, cycles, weatherVars>>

Next ==
    \/ SetupStart
    \/ SetupFirstRefreshDone
    \/ SetupForwardDone
    \/ OptionsSubmit
    \/ OptionsShow
    \/ update_listener
    \/ Tick
    \/ FetchDone

Spec == Init /\ [][Next]_vars

\* ===========================================================================
\* Part 2: weather.py.  Text is a sequence of characters, so that re.match,
\* int(), float() and strptime are computed on the characters as the code
\* computes them.  The degree sign is the one-element token "deg".
\* ===========================================================================

\* --------------------------------------------------------------- characters
DigitSeq == <<"0", "1", "2", "3", "4", "5", "6", "7", "8", "9">>
UpperSeq == <<"A", "B", "C", "D", "E", "F", "G", "H", "I", "J", "K", "L", "M",
              "N", "O", "P", "Q", "R", "S", "T", "U", "V", "W", "X", "Y", "Z">>
LowerSeq == <<"a", "b", "c", "d", "e", "f", "g", "h", "i", "j", "k", "l", "m",
              "n", "o", "p", "q", "r", "s", "t", "u", "v", "w", "x", "y", "z">>
Range(f) == {f[i] : i \in DOMAIN f}
IsDigit(c) == c \in Range(DigitSeq)
\* \w of the re module, on the characters used here
IsWordChar(c) == c \in Range(DigitSeq) \cup Range(UpperSeq) \cup Range(LowerSeq) \cup {"_"}
IsSpace(c) == c = " "
DigitVal(c) == (CHOOSE i \in DOMAIN DigitSeq : DigitSeq[i] = c) - 1
LowerChar(c) ==
    IF c \in Range(UpperSeq)
    THEN LowerSeq[CHOOSE i \in DOMAIN UpperSeq : UpperSeq[i] = c]
    ELSE c
LowerText(s) == [i \in DOMAIN s |-> LowerChar(s[i])]

InClass(c, cls) ==
    IF cls = "digit" THEN IsDigit(c)
    ELSE IF cls = "word" THEN IsWordChar(c)
    ELSE IsSpace(c)

\* Index after the longest run of characters of class cls that starts at i.
RECURSIVE RunEnd(_, _, _)
RunEnd(s, i, cls) ==
    IF i <= Len(s) /\ InClass(s[i], cls) THEN RunEnd(s, i + 1, cls) ELSE i

Slice(s, i, j) == IF j < i THEN <<>> ELSE SubSeq(s, i, j)

First(S) == CHOOSE i \in S : \A j \in S : i <= j
Last(S) == CHOOSE i \in S : \A j \in S : j <= i
SliceBetween(s, S) == IF S = {} THEN <<>> ELSE Slice(s, First(S), Last(S))

\* str.strip() on blanks
Strip(s) == SliceBetween(s, {i \in DOMAIN s : ~IsSpace(s[i])})

\* Value of a run of decimal digits.  Python integers are unbounded; values
\* above the C int range are kept as big = TRUE.
RECURSIVE NatOf(_, _)
NatOf(ds, acc) ==
    IF ds = <<>> THEN acc
    ELSE LET d == DigitVal(Head(ds))
         IN  IF acc.big \/ acc.v > 214748364 \/ (acc.v = 214748364 /\ d > 7)
             THEN NatOf(Tail(ds), [big |-> TRUE, v |-> 0])
             ELSE NatOf(Tail(ds), [big |-> FALSE, v |-> acc.v * 10 + d])
DigitsValue(ds) == NatOf(ds, [big |-> FALSE, v |-> 0])

\* ------------------------------------------------------------- JSON values
Str(s) == [t |-> "str", s |-> s, n |-> 0, items |-> <<>>]
Num(n) == [t |-> "int", s |-> <<>>, n |-> n, items |-> <<>>]
List(items) == [t |-> "list", s |-> <<>>, n |-> 0, items |-> items]
None == [t |-> "none", s |-> <<>>, n |-> 0, items |-> <<>>]

\* dict.get(key) and dict.get(key, default)
GetOr(d, key, default) == IF key \in DOMAIN d THEN d[key] ELSE default
Get(d, key) == GetOr(d, key, None)

\* Python truth value
Truthy(v) ==
    \/ v.t = "str" /\ v.s # <<>>
    \/ v.t = "int" /\ v.n # 0
    \/ v.t = "list" /\ v.items # <<>>

\* Results of calls: a value or the exception that leaves the call.
Ok(v) == [exc |-> "none", val |-> v]
Exc(name) == [exc |-> name, val |-> None]

\* ------------------------------------------------------------------- dates
IsLeap(y) == (y % 4 = 0 /\ y % 100 # 0) \/ y % 400 = 0
DaysInMonth(y, m) ==
    IF m = 2 THEN (IF IsLeap(y) THEN 29 ELSE 28)
    ELSE IF m \in {4, 6, 9, 11} THEN 30 ELSE 31

\* now + timedelta(days=1)
NextDay(d) ==
    IF d.day < DaysInMonth(d.year, d.month)
    THEN [d EXCEPT !.day = d.day + 1]
    ELSE IF d.month < 12
    THEN [d EXCEPT !.day = 1, !.month = d.month + 1]
    ELSE [d EXCEPT !.day = 1, !.month = 1, !.year = d.year + 1]

\* strftime("%Y-%m-%dT12:00:00"): the date with the fixed time of day
NoonOf(y, m, d) == [t |-> "datetime", year |-> y, month |-> m, day |-> d, time |-> "12:00:00"]

\* ------------------------------------------------------------- time of day
\* A resolver whose morning starts an hour late.
_get_time_of_day_LateMorning(current_hour) ==
    IF 6 <= current_hour /\ current_hour < 12 THEN "Morning"
    ELSE IF 12 <= current_hour /\ current_hour < 18 THEN "Afternoon"
    ELSE "Evening"

\* _get_time_of_day, with datetime.now().hour as parameter
_get_time_of_day(current_hour) ==
    IF 5 <= current_hour /\ current_hour < 12 THEN "Morning"
    ELSE IF 12 <= current_hour /\ current_hour < 18 THEN "Afternoon"
    ELSE "Evening"

\* ------------------------------------------------------------ const.py
\* Numbers with a fraction (bearings, speeds, temperatures) are kept in
\* tenths: 22.5 is 225.
Flt(tenths) == [t |-> "float", s |-> <<>>, n |-> tenths, items |-> <<>>]

\* TOOLTIP_CONDITION_MAP: <<tooltip text, condition>>
TOOLTIP_CONDITION_MAP == <<
    <<<<"S", "u", "n", "n", "y">>, Str(<<"s", "u", "n", "n", "y">>)>>,
    <<<<"S", "u", "n", "n", "y", " ", "a", "n", "d", " ", "h", "o", "t">>, Str(<<"s", "u", "n", "n", "y">>)>>,
    <<<<"M", "a", "i", "n", "l", "y", " ", "s", "u", "n", "n", "y">>, Str(<<"p", "a", "r", "t", "l", "y", "c", "l", "o", "u", "d", "y">>)>>,
    <<<<"F", "i", "n", "e">>, Str(<<"c", "l", "e", "a", "r", "-", "n", "i", "g", "h", "t">>)>>,
    <<<<"S", "u", "n", "n", "y", " ", "p", "e", "r", "i", "o", "d", "s">>, Str(<<"p", "a", "r", "t", "l", "y", "c", "l", "o", "u", "d", "y">>)>>,
    <<<<"C", "l", "o", "u", "d", "y", ",", " ", "a", " ", "f", "e", "w", " ", "b", "r", "i", "g", "h", "t", "e", "r", " ", "s", "p", "e", "l", "l", "s">>, Str(<<"p", "a", "r", "t", "l", "y", "c", "l", "o", "u", "d", "y">>)>>,
    <<<<"C", "l", "o", "u", "d", "y", " ", "a", ".", "m", ".", " ", "S", "u", "n", "n", "y", " ", "p", ".", "m", ".">>, Str(<<"p", "a", "r", "t", "l", "y", "c", "l", "o", "u", "d", "y">>)>>,
    <<<<"S", "u", "n", "n", "y", " ", "a", ".", "m", ".", " ", "C", "l", "o", "u", "d", "y", " ", "p", ".", "m", ".">>, Str(<<"p", "a", "r", "t", "l", "y", "c", "l", "o", "u", "d", "y">>)>>,
    <<<<"S", "u", "n", "n", "y", " ", "a", ".", "m", ".", " ", "R", "a", "i", "n", " ", "p", ".", "m", ".">>, Str(<<"r", "a", "i", "n", "y">>)>>,
    <<<<"R", "a", "i", "n", " ", "l", "a", "t", "e", "r">>, Str(<<"r", "a", "i", "n", "y">>)>>,
    <<<<"R", "a", "i", "n", " ", "a", ".", "m", ".", " ", "S", "u", "n", "n", "y", " ", "p", ".", "m", ".">>, Str(<<"r", "a", "i", "n", "y">>)>>,
    <<<<"R", "a", "i", "n">>, Str(<<"r", "a", "i", "n", "y">>)>>,
    <<<<"F", "a", "i", "r">>, Str(<<"p", "a", "r", "t", "l", "y", "c", "l", "o", "u", "d", "y">>)>>,
    <<<<"S", "u", "n", "s", "h", "i", "n", "e", " ", "a", "n", "d", " ", "s", "h", "o", "w", "e", "r", "s">>, Str(<<"r", "a", "i", "n", "y">>)>>,
    <<<<"S", "u", "n", "s", "h", "i", "n", "e", " ", "a", "n", "d", " ", "h", "e", "a", "v", "y", " ", "s", "h", "o", "w", "e", "r">>, Str(<<"r", "a", "i", "n", "y">>)>>,
    <<<<"C", "l", "o", "u", "d", "y", " ", "w", "i", "t", "h", " ", "s", "h", "o", "w", "e", "r", "s">>, Str(<<"r", "a", "i", "n", "y">>)>>,
    <<<<"R", "a", "i", "n", " ", "a", "t", " ", "t", "i", "m", "e", "s">>, Str(<<"p", "o", "u", "r", "i", "n", "g">>)>>,
    <<<<"C", "l", "o", "u", "d", "y">>, Str(<<"c", "l", "o", "u", "d", "y">>)>>
    >>

\* A table of the eight principal compass points only.
WIND_DIRECTION_MAP_EightPoints == <<
    <<<<"N">>, Flt(0)>>,
    <<<<"N", "E">>, Flt(450)>>,
    <<<<"E">>, Flt(900)>>,
    <<<<"S", "E">>, Flt(1350)>>,
    <<<<"S">>, Flt(1800)>>,
    <<<<"S", "W">>, Flt(2250)>>,
    <<<<"W">>, Flt(2700)>>,
    <<<<"N", "W">>, Flt(3150)>>
    >>

\* WIND_DIRECTION_MAP: <<compass point, bearing in tenths of a degree>>
WIND_DIRECTION_MAP == <<
    <<<<"N">>, Flt(0)>>,
    <<<<"N", "N", "E">>, Flt(225)>>,
    <<<<"N", "E">>, Flt(450)>>,
    <<<<"E", "N", "E">>, Flt(675)>>,
    <<<<"E">>, Flt(900)>>,
    <<<<"E", "S", "E">>, Flt(1125)>>,
    <<<<"S", "E">>, Flt(1350)>>,
    <<<<"S", "S", "E">>, Flt(1575)>>,
    <<<<"S">>, Flt(1800)>>,
    <<<<"S", "S", "W">>, Flt(2025)>>,
    <<<<"S", "W">>, Flt(2250)>>,
    <<<<"W", "S", "W">>, Flt(2475)>>,
    <<<<"W">>, Flt(2700)>>,
    <<<<"W", "N", "W">>, Flt(2925)>>,
    <<<<"N", "W">>, Flt(3150)>>,
    <<<<"N", "N", "W">>, Flt(3375)>>
    >>

\* WIND_FORCE_TO_SPEED: <<force code, speed in tenths of m/s>>
WIND_FORCE_TO_SPEED == <<
    <<<<"F", "0">>, Flt(0)>>,
    <<<<"F", "1">>, Flt(5)>>,
    <<<<"F", "2">>, Flt(20)>>,
    <<<<"F", "3">>, Flt(40)>>,
    <<<<"F", "4">>, Flt(60)>>,
    <<<<"F", "5">>, Flt(90)>>,
    <<<<"F", "6">>, Flt(120)>>,
    <<<<"F", "7">>, Flt(150)>>,
    <<<<"F", "8">>, Flt(190)>>,
    <<<<"F", "9">>, Flt(230)>>,
    <<<<"F", "1", "0">>, Flt(270)>>,
    <<<<"F", "1", "1">>, Flt(310)>>,
    <<<<"F", "1", "2">>, Flt(340)>>
    >>

\* dict.get(key) on a table of pairs; None when the key is not in it.  A list
\* is unhashable and makes the lookup raise TypeError.
TableGet(table, key) ==
    IF key.t = "list" THEN Exc("TypeError")
    ELSE IF key.t = "str" /\ \E i \in DOMAIN table : table[i][1] = key.s
    THEN Ok(table[CHOOSE i \in DOMAIN table : table[i][1] = key.s][2])
    ELSE Ok(None)

\* A lookup that ignores the case of the tooltip.
_get_condition_from_tooltip_AnyCase(tooltip) ==
    IF tooltip.t = "str"
       /\ \E i \in DOMAIN TOOLTIP_CONDITION_MAP :
             LowerText(TOOLTIP_CONDITION_MAP[i][1]) = LowerText(tooltip.s)
    THEN Ok(TOOLTIP_CONDITION_MAP[CHOOSE i \in DOMAIN TOOLTIP_CONDITION_MAP :
                LowerText(TOOLTIP_CONDITION_MAP[i][1]) = LowerText(tooltip.s)][2])
    ELSE TableGet(TOOLTIP_CONDITION_MAP, tooltip)

\* _get_condition_from_tooltip
_get_condition_from_tooltip(tooltip) == TableGet(TOOLTIP_CONDITION_MAP, tooltip)

\* _get_wind_bearing_from_direction
_get_wind_bearing_from_direction(direction) == TableGet(WIND_DIRECTION_MAP, direction)

\* _get_wind_speed_from_force
_get_wind_speed_from_force(force) == TableGet(WIND_FORCE_TO_SPEED, force)

\* ------------------------------------------------------- number parsing
\* The sign and the rest of a stripped numeric text.
SignOf(s) == IF s # <<>> /\ Head(s) = "-" THEN 0 - 1 ELSE 1
Unsigned(s) == IF s # <<>> /\ Head(s) \in {"+", "-"} THEN Tail(s) ELSE s
AllDigits(s) == s # <<>> /\ \A i \in DOMAIN s : IsDigit(s[i])

\* An optionally signed run of digits.
IntOfText(st) ==
    IF ~AllDigits(Unsigned(st)) THEN Exc("ValueError")
    ELSE IF DigitsValue(Unsigned(st)).big THEN Exc("OutOfModelRange")
    ELSE Ok(Num(SignOf(st) * DigitsValue(Unsigned(st)).v))

\* int(x): an int is returned as it is, a text is stripped and read as an
\* optionally signed run of digits, anything else in a text is a ValueError
\* and None or a list a TypeError.
PyInt(x) ==
    IF x.t = "int" THEN Ok(x)
    ELSE IF x.t # "str" THEN Exc("TypeError")
    ELSE IntOfText(Strip(x.s))

\* The value of integer part ip and fraction fp, in tenths.
FloatOfParts(sign, ip, fp) ==
    IF ~(/\ ip \o fp # <<>>
         /\ \A i \in DOMAIN ip : IsDigit(ip[i])
         /\ \A i \in DOMAIN fp : IsDigit(fp[i]))
    THEN Exc("ValueError")
    ELSE IF \/ DigitsValue(ip).big
            \/ DigitsValue(ip).v > 100000
            \/ \E i \in DOMAIN fp : i > 1 /\ fp[i] # "0"
    THEN Exc("OutOfModelRange")
    ELSE Ok(Flt(sign * (DigitsValue(ip).v * 10 + (IF fp = <<>> THEN 0 ELSE DigitVal(fp[1])))))

\* The text split at its decimal point, when it has one.
FloatOfUnsigned(sign, u, dots) ==
    IF dots = {} THEN FloatOfParts(sign, u, <<>>)
    ELSE IF Cardinality(dots) > 1 THEN Exc("ValueError")
    ELSE FloatOfParts(sign, Slice(u, 1, (CHOOSE i \in dots : TRUE) - 1),
                      Slice(u, (CHOOSE i \in dots : TRUE) + 1, Len(u)))

FloatOfStripped(st) ==
    FloatOfUnsigned(SignOf(st), Unsigned(st), {i \in DOMAIN Unsigned(st) : Unsigned(st)[i] = "."})

\* float(text) for decimal notation: [sign] digits [. digits] or [sign] . digits.
\* The value is kept in tenths; texts with more fractional digits than one
\* non-zero digit, exponents, "inf" and "nan" are outside the inputs used.
PyFloatText(text) == FloatOfStripped(Strip(text))

\* str.replace(old, "") for a two-character old
RECURSIVE RemoveAll(_, _)
RemoveAll(s, old) ==
    IF Len(s) < Len(old) THEN s
    ELSE IF SubSeq(s, 1, Len(old)) = old THEN RemoveAll(SubSeq(s, Len(old) + 1, Len(s)), old)
    ELSE <<Head(s)>> \o RemoveAll(Tail(s), old)

DegreeC == <<"deg", "C">>

\* A parser that lets the error of float() escape.
_extract_temp_value_Unguarded(temp_str) ==
    IF ~Truthy(temp_str) THEN Ok(None)
    ELSE IF temp_str.t # "str" THEN Exc("AttributeError")
    ELSE PyFloatText(RemoveAll(temp_str.s, DegreeC))

\* except (ValueError, TypeError): return None / pass
NoneOnValueOrTypeError(r) == IF r.exc \in {"ValueError", "TypeError"} THEN Ok(None) ELSE r

\* _extract_temp_value: None for a falsy argument and for a ValueError or
\* TypeError of float(); a truthy non-text has no replace() and the
\* AttributeError is not caught.
_extract_temp_value(temp_str) ==
    IF ~Truthy(temp_str) THEN Ok(None)
    ELSE IF temp_str.t # "str" THEN Exc("AttributeError")
    ELSE NoneOnValueOrTypeError(PyFloatText(RemoveAll(temp_str.s, DegreeC)))

\* ------------------------------------------------------------ day names
Today == <<"T", "o", "d", "a", "y">>
Tomorrow == <<"T", "o", "m", "o", "r", "r", "o", "w">>

\* month_map of _parse_day_name_to_date: the index is the month number
month_map == <<
    <<"J", "a", "n">>,
    <<"F", "e", "b">>,
    <<"M", "a", "r">>,
    <<"A", "p", "r">>,
    <<"M", "a", "y">>,
    <<"J", "u", "n">>,
    <<"J", "u", "l">>,
    <<"A", "u", "g">>,
    <<"S", "e", "p">>,
    <<"O", "c", "t">>,
    <<"N", "o", "v">>,
    <<"D", "e", "c">>
    >>

\* the full month names strptime's %B accepts, compared without case
FullMonthNames == <<
    <<"j", "a", "n", "u", "a", "r", "y">>,
    <<"f", "e", "b", "r", "u", "a", "r", "y">>,
    <<"m", "a", "r", "c", "h">>,
    <<"a", "p", "r", "i", "l">>,
    <<"m", "a", "y">>,
    <<"j", "u", "n", "e">>,
    <<"j", "u", "l", "y">>,
    <<"a", "u", "g", "u", "s", "t">>,
    <<"s", "e", "p", "t", "e", "m", "b", "e", "r">>,
    <<"o", "c", "t", "o", "b", "e", "r">>,
    <<"n", "o", "v", "e", "m", "b", "e", "r">>,
    <<"d", "e", "c", "e", "m", "b", "e", "r">>
    >>

NoMatch == [matched |-> FALSE, day |-> <<>>, month |-> <<>>]

\* The month group of the pattern, starting at i2 + 1, after the day group
\* s[i1 + 1 .. i2 - 1].
MatchMonth(s, i1, i2, i3) ==
    IF i3 > i2 + 1
    THEN [matched |-> TRUE, day |-> Slice(s, i1 + 1, i2 - 1), month |-> Slice(s, i2 + 1, i3 - 1)]
    ELSE NoMatch

\* The day group: a run of digits s[i1 + 1 .. i2 - 1] followed by a blank.
MatchDay(s, i1, i2) ==
    IF i2 > i1 + 1 /\ i2 <= Len(s) /\ s[i2] = " "
    THEN MatchMonth(s, i1, i2, RunEnd(s, i2 + 1, "word"))
    ELSE NoMatch

\* The leading word s[1 .. i1 - 1] followed by a blank.
MatchWord(s, i1) ==
    IF i1 > 1 /\ i1 <= Len(s) /\ s[i1] = " "
    THEN MatchDay(s, i1, RunEnd(s, i1 + 1, "digit"))
    ELSE NoMatch

\* re.match(r'\w+ (\d+) (\w+)', day_name): the groups, or matched = FALSE
ReMatchDayName(s) == MatchWord(s, RunEnd(s, 1, "word"))

\* datetime(year, month, day, 12, 0, 0): OverflowError when day does not fit
\* a C int, ValueError when the day is not a day of the month.
MakeDatetime(year, month, day) ==
    IF day.big THEN Exc("OverflowError")
    ELSE IF day.v < 1 \/ day.v > DaysInMonth(year, month) THEN Exc("ValueError")
    ELSE Ok(NoonOf(year, month, day.v))

MonthNumber(table, name) == CHOOSE m \in DOMAIN table : table[m] = name

\* The date of strptime once day, month name and year are read.
StrptimeDate(d, name, y) ==
    IF /\ d \in 1..31
       /\ \E m \in DOMAIN FullMonthNames : FullMonthNames[m] = name
       /\ y >= 1
       /\ d <= DaysInMonth(y, MonthNumber(FullMonthNames, name))
    THEN Ok(NoonOf(y, MonthNumber(FullMonthNames, name), d))
    ELSE Exc("ValueError")

\* The fields of "%d %B %Y" between the indices found by StrptimeScan.
StrptimeFields(s, i1, i2, i3, i4, i5) ==
    IF /\ i1 - 1 \in {1, 2}
       /\ i2 > i1
       /\ i4 > i3
       /\ i5 - i4 = 4 /\ i5 = Len(s) + 1
    THEN StrptimeDate(DigitsValue(Slice(s, 1, i1 - 1)).v,
                      LowerText(Slice(s, i2, i3 - 1)),
                      DigitsValue(Slice(s, i4, i5 - 1)).v)
    ELSE Exc("ValueError")

StrptimeScan5(s, i1, i2, i3, i4) == StrptimeFields(s, i1, i2, i3, i4, RunEnd(s, i4, "digit"))
StrptimeScan4(s, i1, i2, i3) == StrptimeScan5(s, i1, i2, i3, RunEnd(s, i3, "space"))
StrptimeScan3(s, i1, i2) == StrptimeScan4(s, i1, i2, RunEnd(s, i2, "word"))
StrptimeScan2(s, i1) == StrptimeScan3(s, i1, RunEnd(s, i1, "space"))

\* datetime.strptime(text, "%d %B %Y"): one or two digits of a day 1..31,
\* blanks, a full month name in any case, blanks, four digits of a year, and
\* nothing else; the day must exist in the month.
Strptime(s) == StrptimeScan2(s, RunEnd(s, 1, "digit"))

\* float(x) for a JSON value
PyFloat(x) ==
    IF x.t = "int" THEN Ok(Flt(x.n * 10))
    ELSE IF x.t # "str" THEN Exc("TypeError")
    ELSE PyFloatText(x.s)

\* month_map.get(month_str, now.month)
MonthOf(month_str, default) ==
    IF \E m \in DOMAIN month_map : month_map[m] = month_str
    THEN MonthNumber(month_map, month_str)
    ELSE default

\* A year rule that rolls over for any month earlier than the current one.
YearOf_AnyEarlierMonth(month, now) ==
    IF month < now.month THEN now.year + 1 ELSE now.year

\* year = now.year; if month < now.month and month in [1, 2]: year += 1
YearOf(month, now) ==
    IF month < now.month /\ month \in {1, 2} THEN now.year + 1 ELSE now.year

\* try: datetime(...) except ValueError: pass
DateOrPass(made) == IF made.exc = "ValueError" THEN Ok(None) ELSE made

\* The date for a matched day name with its month resolved.
DateOfMatch(day, month, now) == DateOrPass(MakeDatetime(YearOf(month, now), month, day))

\* if match: ...
DateOfGroups(m, now) ==
    IF ~m.matched THEN Ok(None)
    ELSE DateOfMatch(DigitsValue(m.day), MonthOf(m.month, now.month), now)

\* The 'Sat 12 Jul' branch of _parse_day_name_to_date: the date, None when
\* the branch falls through, or the exception that leaves it.
ParseDayMonth(day_name, now) ==
    IF ~Truthy(day_name) THEN Ok(None)
    ELSE IF day_name.t # "str" THEN Exc("TypeError")
    ELSE DateOfGroups(ReMatchDayName(day_name.s), now)

\* The forecast_date branch: "11 July 2025"
ParseHint(forecast_date) ==
    IF ~Truthy(forecast_date) THEN Ok(None)
    ELSE IF forecast_date.t # "str" THEN Exc("TypeError")
    ELSE DateOrPass(Strptime(forecast_date.s))

NoonOfDate(d) == NoonOf(d.year, d.month, d.day)

\* The first branch that returns or raises; the current date when none does.
FirstResolved(byName, byHint, now) ==
    IF byName.exc # "none" \/ byName.val.t = "datetime" THEN byName
    ELSE IF byHint.exc # "none" \/ byHint.val.t = "datetime" THEN byHint
    ELSE Ok(NoonOfDate(now))

\* _parse_day_name_to_date, with datetime.now() as parameter
_parse_day_name_to_date(day_name, forecast_date, now) ==
    IF day_name.t = "str" /\ day_name.s = Today THEN Ok(NoonOfDate(now))
    ELSE IF day_name.t = "str" /\ day_name.s = Tomorrow THEN Ok(NoonOfDate(NextDay(now)))
    ELSE FirstResolved(ParseDayMonth(day_name, now), ParseHint(forecast_date), now)

\* ------------------------------------------------------ forecast entries
Bool(b) == [t |-> "bool", s |-> <<>>, n |-> IF b THEN 1 ELSE 0, items |-> <<>>]

\* A key of the Forecast dict that is set only under a condition.
Opt(key, present, v) == IF present THEN key :> v ELSE <<>>

RainKeys == <<"rainProbMorning", "rainProbAfternoon", "rainProbEvening">>

\* int(day_data.get(key, 0)) for the three periods, in the order of the list
PrecipProbs(day_data) == [i \in DOMAIN RainKeys |-> PyInt(GetOr(day_data, RainKeys[i], Num(0)))]

Max3(a, b, c) ==
    IF a >= b /\ a >= c THEN a ELSE IF b >= c THEN b ELSE c

\* max(precip_probs)
Aggregate(a, b, c) == Max3(a, b, c)

\* The first exception among results, "none" when all returned.
FirstExc(results) ==
    IF \A i \in DOMAIN results : results[i].exc = "none" THEN "none"
    ELSE results[CHOOSE i \in DOMAIN results :
                    /\ results[i].exc # "none"
                    /\ \A j \in DOMAIN results : results[j].exc # "none" => i <= j].exc

\* `if x:` guarding a table lookup
LookupIfTruthy(table, key) == IF Truthy(key) THEN TableGet(table, key) ELSE Ok(None)

\* The Forecast dict once every field is computed.
ForecastEntry(date, condition, max_temp, min_temp, probs, bearing, speed) ==
    ("datetime" :> date.val)
    @@ Opt("condition", Truthy(condition.val), condition.val)
    @@ Opt("native_temperature", max_temp.val.t # "none", max_temp.val)
    @@ Opt("native_templow", min_temp.val.t # "none", min_temp.val)
    @@ ("precipitation_probability" :>
            Num(Aggregate(probs[1].val.n, probs[2].val.n, probs[3].val.n)))
    @@ Opt("wind_bearing", bearing.val.t # "none", bearing.val)
    @@ Opt("native_wind_speed", speed.val.t # "none", speed.val)
    @@ ("is_daytime" :> Bool(TRUE))

\* The statements of _build_forecast_data in order: the first exception
\* leaves the function, otherwise the entry is returned.
BuildSteps(date, condition, max_temp, min_temp, probs, bearing, speed) ==
    IF FirstExc(<<date, condition, max_temp, min_temp,
                  probs[1], probs[2], probs[3], bearing, speed>>) # "none"
    THEN Exc(FirstExc(<<date, condition, max_temp, min_temp,
                        probs[1], probs[2], probs[3], bearing, speed>>))
    ELSE Ok(ForecastEntry(date, condition, max_temp, min_temp, probs, bearing, speed))

\* A build whose wind speed is the day-level mph reading when the day has
\* one, and the force-table value otherwise.
_build_forecast_data_MphSpeed(day_data, forecast_date, now) ==
    BuildSteps(_parse_day_name_to_date(Get(day_data, "dayName"), forecast_date, now),
               LookupIfTruthy(TOOLTIP_CONDITION_MAP, Get(day_data, "dayToolTip")),
               _extract_temp_value(Get(day_data, "maxTemp")),
               _extract_temp_value(Get(day_data, "minTemp")),
               PrecipProbs(day_data),
               LookupIfTruthy(WIND_DIRECTION_MAP, Get(day_data, "windDirection")),
               IF Truthy(Get(day_data, "windSpeedMPH"))
               THEN NoneOnValueOrTypeError(PyFloat(Get(day_data, "windSpeedMPH")))
               ELSE LookupIfTruthy(WIND_FORCE_TO_SPEED, Get(day_data, "windSpeed")))

\* _build_forecast_data, with datetime.now() as parameter
_build_forecast_data(day_data, forecast_date, now) ==
    BuildSteps(_parse_day_name_to_date(Get(day_data, "dayName"), forecast_date, now),
               LookupIfTruthy(TOOLTIP_CONDITION_MAP, Get(day_data, "dayToolTip")),
               _extract_temp_value(Get(day_data, "maxTemp")),
               _extract_temp_value(Get(day_data, "minTemp")),
               PrecipProbs(day_data),
               LookupIfTruthy(WIND_DIRECTION_MAP, Get(day_data, "windDirection")),
               LookupIfTruthy(WIND_FORCE_TO_SPEED, Get(day_data, "windSpeed")))

\* forecasts.append(forecast) for the first day, then the remaining days.
BuildCons(first, rest) ==
    IF first.exc # "none" THEN [exc |-> first.exc, list |-> <<>>]
    ELSE IF rest.exc # "none" THEN rest
    ELSE [exc |-> "none", list |-> <<first.val>> \o rest.list]

\* The loop of _async_forecast_daily: the entries of the days, or the first
\* exception.
RECURSIVE BuildAll(_, _, _)
BuildAll(days, forecast_date, now) ==
    IF days = <<>> THEN [exc |-> "none", list |-> <<>>]
    ELSE BuildCons(_build_forecast_data(Head(days), forecast_date, now),
                   BuildAll(Tail(days), forecast_date, now))

\* ---------------------------------------------------------- documents
\* Documents the endpoint serves, as parsed JSON: an object is a function
\* of its keys.
RawDocs ==
    "docA" :> ("currentTemprature" :> Str(<<"1", "8", "deg", "C">>)
         @@ "forecastDate" :> Str(<<"1", "1", " ", "J", "u", "l", "y", " ", "2", "0", "2", "5">>)
         @@ "forecastDay" :> List(<<
                ("dayName" :> Str(<<"T", "o", "d", "a", "y">>)
                 @@ "dayToolTip" :> Str(<<"S", "u", "n", "n", "y">>)
                 @@ "maxTemp" :> Str(<<"2", "0", "deg", "C">>)
                 @@ "minTemp" :> Str(<<"1", "2", "deg", "C">>)
                 @@ "rainProbMorning" :> Str(<<"1", "0">>)
                 @@ "rainProbAfternoon" :> Str(<<"8", "0">>)
                 @@ "rainProbEvening" :> Str(<<"3", "0">>)
                 @@ "windDirection" :> Str(<<"S", "W">>)
                 @@ "windSpeed" :> Str(<<"F", "3">>)
                 @@ "windspeedMphMorning" :> Str(<<"1", "0">>)
                 @@ "windspeedMphAfternoon" :> Str(<<"1", "5">>)
                 @@ "windspeedMphEvening" :> Str(<<"8">>)
                 @@ "windSpeedMPH" :> Str(<<"1", "2">>)
                 @@ "iconMorningToolTip" :> Str(<<"F", "i", "n", "e">>)
                 @@ "iconAfternoonToolTip" :> Str(<<"R", "a", "i", "n">>)
                 @@ "iconEveningToolTip" :> Str(<<"C", "l", "o", "u", "d", "y">>)
                 @@ "windDirectionMorning" :> Str(<<"N">>)
                 @@ "windDirectionAfternoon" :> Str(<<>>)
                 @@ "windSpeedForceMorning" :> Str(<<"F", "1">>)
                 @@ "windSpeedForceAfternoon" :> Str(<<>>)
                 @@ "windspeedKnotsMorning" :> Str(<<"9">>)
                 @@ "windspeedKnotsAfternoon" :> Str(<<"1", "3">>)
                 @@ "windspeedKnotsEvening" :> Str(<<"7">>)
                 @@ "windspeedKMMorning" :> Str(<<"1", "6">>)
                 @@ "windspeedKMAfternoon" :> Str(<<"2", "4">>)
                 @@ "windspeedKMEvening" :> Str(<<"1", "3">>)
                 @@ "confidenceMorning" :> Str(<<"H", "i", "g", "h">>)
                 @@ "confidenceAfternoon" :> Str(<<>>)
                 @@ "morningDescripiton" :> Str(<<"B", "r", "i", "g", "h", "t", " ", "s", "t", "a", "r", "t">>)
                 @@ "afternoonDescripiton" :> Str(<<>>)),
                ("dayName" :> Str(<<"T", "o", "m", "o", "r", "r", "o", "w">>)
                 @@ "dayToolTip" :> Str(<<"R", "a", "i", "n", " ", "a", "t", " ", "t", "i", "m", "e", "s">>)
                 @@ "maxTemp" :> Str(<<"2", "2", ".", "5", "deg", "C">>)
                 @@ "minTemp" :> Str(<<"9", "deg", "C">>)
                 @@ "rainProbMorning" :> Str(<<"4", "0">>)
                 @@ "rainProbAfternoon" :> Str(<<"2", "0">>)
                 @@ "windDirection" :> Str(<<"N", "N", "E">>)
                 @@ "windSpeed" :> Str(<<"F", "4">>)),
                ("dayName" :> Str(<<"S", "a", "t", " ", "1", "2", " ", "J", "u", "l">>)
                 @@ "dayToolTip" :> Str(<<"F", "a", "i", "r">>)
                 @@ "maxTemp" :> Str(<<"1", "9", "deg", "C">>)
                 @@ "rainProbEvening" :> Str(<<"5">>)
                 @@ "windDirection" :> Str(<<"N">>)
                 @@ "windSpeed" :> Str(<<"F", "0">>))
            >>))
    @@ "docB" :> ("currentTemprature" :> Str(<<"2", "4", "deg", "C">>)
         @@ "forecastDay" :> List(<<
                ("dayName" :> Str(<<"T", "o", "d", "a", "y">>)
                 @@ "dayToolTip" :> Str(<<"C", "l", "o", "u", "d", "y">>)
                 @@ "windSpeedMPH" :> Str(<<"7">>)
                 @@ "windDirection" :> Str(<<"E">>)
                 @@ "windSpeed" :> Str(<<"F", "1", "2">>)),
                ("dayName" :> Str(<<"T", "h", "u", " ", "1", " ", "J", "a", "n">>)
                 @@ "minTemp" :> Str(<<"-", "2", "deg", "C">>)
                 @@ "rainProbMorning" :> Str(<<" ", "7", " ">>)
                 @@ "rainProbAfternoon" :> Str(<<"+", "3">>)),
                ("dayName" :> Str(<<"S", "a", "t", " ", "1", "2", " ", "X", "y", "z">>)
                 @@ "dayToolTip" :> Str(<<"T", "h", "u", "n", "d", "e", "r", "y">>)
                 @@ "maxTemp" :> Str(<<"a", "b", "c">>)
                 @@ "windDirection" :> Str(<<"X", "X">>)
                 @@ "windSpeed" :> Str(<<"F", "9", "9">>))
            >>))
    @@ "docC" :> ("currentTemprature" :> Str(<<>>)
         @@ "forecastDate" :> Str(<<"1", "1", " ", "J", "u", "l", "y", " ", "2", "0", "2", "5">>)
         @@ "forecastDay" :> List(<<
                ("dayToolTip" :> Str(<<"R", "a", "i", "n">>)
                 @@ "rainProbMorning" :> Num(10)
                 @@ "rainProbAfternoon" :> Num(80)
                 @@ "rainProbEvening" :> Num(30)
                 @@ "iconMorningToolTip" :> Str(<<>>)
                 @@ "windspeedMphMorning" :> Str(<<>>)
                 @@ "windspeedMphEvening" :> Str(<<"f", "a", "s", "t">>)
                 @@ "windSpeedMPH" :> Str(<<"9", ".", "5">>)
                 @@ "windSpeed" :> Str(<<"F", "5">>)
                 @@ "windDirection" :> Str(<<"N", "N", "E">>)),
                ("dayName" :> Str(<<"T", "u", "e", " ", "3", "1", " ", "F", "e", "b">>)
                 @@ "maxTemp" :> Str(<<"1", "5">>)),
                ("dayName" :> Str(<<"S", "a", "t", "u", "r", "d", "a", "y">>))
            >>))
    @@ "docD" :> ("forecastDate" :> Str(<<"s", "o", "o", "n">>)
         @@ "forecastDay" :> List(<<
                ("dayName" :> Str(<<"S", "o", "m", "e", "d", "a", "y">>)
                 @@ "windspeedMphAfternoon" :> Str(<<"1", "1", ".", "5">>)
                 @@ "windDirection" :> Str(<<"X", "X">>)),
                ("dayName" :> Str(<<"M", "o", "n", " ", "2", "9", " ", "F", "e", "b">>)),
                ("dayName" :> Str(<<>>)
                 @@ "dayToolTip" :> Str(<<"S", "u", "n", "n", "y", " ", "a", "n", "d", " ", "h", "o", "t">>)),
                ("dayName" :> Str(<<"W", "e", "d", " ", "0", " ", "M", "a", "r", " ", "e", "x", "t", "r", "a">>))
            >>))
    @@ "docE" :> ("currentTemprature" :> Str(<<"a", "b", "c">>)
         @@ "forecastDate" :> Str(<<"3", "1", " ", "F", "e", "b", "r", "u", "a", "r", "y", " ", "2", "0", "2", "5">>)
         @@ "forecastDay" :> List(<<
                ("dayName" :> Str(<<"F", "r", "i", " ", "2", " ", "F", "e", "b">>)
                 @@ "windDirection" :> Str(<<"S">>)),
                ("dayName" :> Str(<<"S", "u", "n", " ", "3", "1", " ", "D", "e", "c">>)),
                ("dayName" :> None
                 @@ "maxTemp" :> None)
            >>))
    @@ "docF" :> ("currentTemprature" :> Str(<<"1", "8", "deg", "C">>)
         @@ "forecastDay" :> List(<<>>))
    @@ "docG" :> ("currentTemprature" :> Str(<<"7", ".", "0">>))
    @@ "docH" :> ("currentTemprature" :> Str(<<"1", "8", "deg", "C">>)
         @@ "forecastDay" :> List(<<
                ("dayName" :> Str(<<"T", "o", "d", "a", "y">>)
                 @@ "rainProbMorning" :> Str(<<"a", "b", "c">>)
                 @@ "rainProbAfternoon" :> Str(<<"4", "0">>)
                 @@ "rainProbEvening" :> Str(<<"2", "0">>))
            >>))
    @@ "docI" :> ("currentTemprature" :> Str(<<"deg", "C", "2", "4">>)
         @@ "forecastDay" :> List(<<
                ("dayName" :> Str(<<"T", "o", "d", "a", "y">>)
                 @@ "rainProbMorning" :> Str(<<"1", "0">>)
                 @@ "rainProbAfternoon" :> Str(<<>>)
                 @@ "rainProbEvening" :> Str(<<"2", "0">>)
                 @@ "windDirection" :> Str(<<"N">>))
            >>))
    @@ "docJ" :> ("forecastDay" :> List(<<
                ("dayName" :> Str(<<"T", "o", "d", "a", "y">>)
                 @@ "rainProbMorning" :> Str(<<"1", "0">>)
                 @@ "rainProbAfternoon" :> Str(<<"4", "0">>)
                 @@ "rainProbEvening" :> None
                 @@ "dayToolTip" :> Str(<<"S", "u", "n", "n", "y">>)
                 @@ "iconMorningToolTip" :> Str(<<"s", "u", "n", "n", "y">>)
                 @@ "iconEveningToolTip" :> Str(<<"T", "h", "u", "n", "d", "e", "r", "y">>)
                 @@ "windDirection" :> Str(<<"N", "N", "W">>))
            >>))
    @@ "docK" :> ("forecastDay" :> List(<<
                ("dayName" :> Str(<<"T", "o", "d", "a", "y">>)
                 @@ "rainProbMorning" :> Str(<<"1", "5", "0">>)
                 @@ "rainProbAfternoon" :> Str(<<"4", "0">>)),
                ("dayName" :> Str(<<"T", "o", "m", "o", "r", "r", "o", "w">>)
                 @@ "rainProbMorning" :> Str(<<"-", "5">>))
            >>))
    @@ "docL" :> ("forecastDate" :> Str(<<"1", " ", "j", "a", "n", "u", "a", "r", "y", " ", "2", "0", "2", "6">>)
         @@ "forecastDay" :> List(<<
                ("dayName" :> Str(<<"S", "a", "t", " ", "9", "9", "9", "9", "9", "9", "9", "9", "9", "9", "9", " ", "J", "u", "l">>)
                 @@ "rainProbMorning" :> Str(<<"1", "0">>)
                 @@ "windDirection" :> Str(<<"W">>))
            >>))
    @@ "docM" :> ("currentTemprature" :> None
         @@ "forecastDate" :> Str(<<"1", " ", "j", "a", "n", "u", "a", "r", "y", " ", "2", "0", "2", "6">>)
         @@ "forecastDay" :> List(<<
                ("dayName" :> Str(<<"S", "a", "t", " ", "3", "2", " ", "J", "u", "l">>)
                 @@ "dayToolTip" :> Str(<<"M", "a", "i", "n", "l", "y", " ", "s", "u", "n", "n", "y">>)
                 @@ "windDirection" :> Str(<<"e", "s", "e">>)),
                ("dayName" :> Str(<<"1", "2", " ", "J", "u", "l">>)
                 @@ "dayToolTip" :> Str(<<"R", "a", "i", "n", ".">>)),
                ("dayName" :> Str(<<"W", "e", "d", " ", "5", " ", "M", "a", "r">>)
                 @@ "windSpeedMPH" :> Str(<<"3", "0">>))
            >>))

\* The documents of the weather specification, and the instants at which the
\* entity is read.
WeatherDocIds == DOMAIN RawDocs
NowDates == {[year |-> 2025, month |-> 6, day |-> 15],
             [year |-> 2025, month |-> 12, day |-> 31],
             [year |-> 2024, month |-> 2, day |-> 28],
             [year |-> 2023, month |-> 3, day |-> 1],
             [year |-> 2026, month |-> 1, day |-> 10]}
Hours == 0..23

\* -------------------------------------------------------- weather entity
\* `if not self.coordinator.data`
NoCoordinatorData(id) == id = NoData \/ DOMAIN RawDocs[id] = {}

\* days[0]: the first day, IndexError for an empty sequence, TypeError for a
\* value that cannot be indexed; a character of a text has no get().
FirstOf(days) ==
    IF days.t \in {"none", "int"} THEN Exc("TypeError")
    ELSE IF days.t = "str" THEN (IF days.s = <<>> THEN Exc("IndexError")
                                 ELSE Exc("AttributeError"))
    ELSE IF days.items = <<>> THEN Exc("IndexError")
    ELSE [exc |-> "none", val |-> days.items[1]]

\* self.coordinator.data.get("forecastDay", [])[0]
FirstDay(doc) == FirstOf(GetOr(doc, "forecastDay", List(<<>>)))

\* The key of a per-period field: prefix + period + suffix.
PeriodKey(prefix, time_of_day, suffix) ==
    IF time_of_day = "Morning" THEN prefix \o "Morning" \o suffix
    ELSE IF time_of_day = "Afternoon" THEN prefix \o "Afternoon" \o suffix
    ELSE prefix \o "Evening" \o suffix

\* except (IndexError, KeyError): return None
NoneOnIndexOrKeyError(r) == IF r.exc \in {"IndexError", "KeyError"} THEN Ok(None) ELSE r

\* A lookup that reads the period field only.
PeriodOrDay_PeriodOnly(day_data, period_key, day_key) == Get(day_data, period_key)

\* day_data.get(period_key), falling back to day_data.get(day_key) when the
\* period value is falsy.
PeriodOrDay(day_data, period_key, day_key) ==
    IF Truthy(Get(day_data, period_key)) THEN Get(day_data, period_key)
    ELSE Get(day_data, day_key)

\* The body of the try of condition, with day_data the result of [0].
ConditionOfDay(first, time_of_day) ==
    IF first.exc # "none" THEN Exc(first.exc)
    ELSE _get_condition_from_tooltip(
            PeriodOrDay(first.val, PeriodKey("icon", time_of_day, "ToolTip"), "dayToolTip"))

\* JerseyWeather.condition
condition(id, hour) ==
    IF NoCoordinatorData(id) THEN Ok(None)
    ELSE NoneOnIndexOrKeyError(ConditionOfDay(FirstDay(RawDocs[id]), _get_time_of_day(hour)))

\* JerseyWeather.native_temperature
native_temperature(id) ==
    IF NoCoordinatorData(id) THEN Ok(None)
    ELSE _extract_temp_value(Get(RawDocs[id], "currentTemprature"))

BearingOfDay(first) ==
    IF first.exc # "none" THEN Exc(first.exc)
    ELSE _get_wind_bearing_from_direction(Get(first.val, "windDirection"))

\* JerseyWeather.wind_bearing
wind_bearing(id) ==
    IF NoCoordinatorData(id) THEN Ok(None)
    ELSE NoneOnIndexOrKeyError(BearingOfDay(FirstDay(RawDocs[id])))

\* if wind_speed_str: try: return float(wind_speed_str) ...; return None
SpeedOfText(wind_speed_str) ==
    IF ~Truthy(wind_speed_str) THEN Ok(None)
    ELSE NoneOnValueOrTypeError(PyFloat(wind_speed_str))

\* A wind speed that falls back to the force code windSpeed.
SpeedOfDay_ForceField(first, time_of_day) ==
    IF first.exc # "none" THEN Exc(first.exc)
    ELSE SpeedOfText(PeriodOrDay(first.val, PeriodKey("windspeedMph", time_of_day, ""),
                                 "windSpeed"))

SpeedOfDay(first, time_of_day) ==
    IF first.exc # "none" THEN Exc(first.exc)
    ELSE SpeedOfText(PeriodOrDay(first.val, PeriodKey("windspeedMph", time_of_day, ""),
                                 "windSpeedMPH"))

\* JerseyWeather.native_wind_speed
native_wind_speed(id, hour) ==
    IF NoCoordinatorData(id) THEN Ok(None)
    ELSE NoneOnIndexOrKeyError(SpeedOfDay(FirstDay(RawDocs[id]), _get_time_of_day(hour)))

NoForecast == [exc |-> "none", list |-> <<>>, isNone |-> TRUE]
ForecastList(built) == [exc |-> built.exc, list |-> built.list, isNone |-> FALSE]

\* The loop over forecast_days; a number cannot be iterated and the
\* characters of a text have no get().
ForecastOfDays(forecast_days, forecast_date, now) ==
    IF ~Truthy(forecast_days) THEN NoForecast
    ELSE IF forecast_days.t = "int" THEN ForecastList([exc |-> "TypeError", list |-> <<>>])
    ELSE IF forecast_days.t = "str" THEN ForecastList([exc |-> "AttributeError", list |-> <<>>])
    ELSE ForecastList(BuildAll(forecast_days.items, forecast_date, now))

\* JerseyWeather._async_forecast_daily: None without data or days, else the
\* list of the days' entries.
_async_forecast_daily(id, now) ==
    IF NoCoordinatorData(id) THEN NoForecast
    ELSE ForecastOfDays(GetOr(RawDocs[id], "forecastDay", List(<<>>)),
                        Get(RawDocs[id], "forecastDate"), now)

\* ------------------------------------------------------- weather actions
\* Instants at which datetime.now() is read: every hour of one day, and one
\* hour of each other date.
Nows ==
    {[year |-> 2025, month |-> 6, day |-> 15, hour |-> h] : h \in Hours}
    \cup {[year |-> d.year, month |-> d.month, day |-> d.day, hour |-> 9] : d \in NowDates}

ItemsOf(days) == IF days.t = "list" THEN days.items ELSE <<>>

\* The days of a document, when forecastDay is a sequence.
DaysOf(id) == ItemsOf(GetOr(RawDocs[id], "forecastDay", List(<<>>)))

\* The state after a successful setup with the document id published.
InitWeather ==
    /\ setup = "done"
    /\ stored = TRUE
    /\ platforms = TRUE
    /\ listener = TRUE
    /\ returnedTrue = TRUE
    /\ options = NoOption
    /\ listenerPending = FALSE
    /\ flowResult = NoFlow
    /\ update_interval = DEFAULT_SCAN_INTERVAL
    /\ data \in WeatherDocIds
    /\ lastGood = data
    /\ last_update_success = TRUE
    /\ timerArmed = TRUE
    /\ inFlight = 0
    /\ lastResp = Http(200, "json", data)
    /\ lastResult = Returned(data)
    /\ firstRefresh = "ok"
    /\ cycles = 1
    /\ call = NoCall

unchangedByEntity == <<setupVars, options, listenerPending, flowResult, coordVars>>

\* A poll cycle succeeds and publishes a document; the entity is written
\* again from the new data.
PollSuccess ==
    \E id \in WeatherDocIds :
        /\ data' = Publish(_async_update_data(Http(200, "json", id)), data)
        /\ lastGood' = id
        /\ lastResp' = Http(200, "json", id)
        /\ lastResult' = _async_update_data(Http(200, "json", id))
        /\ last_update_success' = TRUE
        /\ call' = NoCall
        /\ UNCHANGED <<setupVars, options, listenerPending, flowResult, update_interval,
                       timerArmed, inFlight, firstRefresh, cycles>>

\* The current state of the entity is read: condition, native_temperature,
\* wind_bearing and native_wind_speed.
ReadState ==
    \E now \in Nows :
        /\ call' = [op |-> "state", doc |-> data, now |-> now,
                    time_of_day |-> _get_time_of_day(now.hour),
                    condition |-> condition(data, now.hour),
                    native_temperature |-> native_temperature(data),
                    wind_bearing |-> wind_bearing(data),
                    native_wind_speed |-> native_wind_speed(data, now.hour)]
        /\ UNCHANGED unchangedByEntity

\* The daily forecast is requested.
ForecastDaily ==
    \E now \in Nows :
        /\ call' = [op |-> "forecast_daily", doc |-> data, now |-> now,
                    out |-> _async_forecast_daily(data, now)]
        /\ UNCHANGED unchangedByEntity

\* One iteration of the loop of _async_forecast_daily: day i of the document
\* is normalised.  The iteration runs when no earlier day raised.
BuildDay ==
    \E now \in Nows, i \in DOMAIN DaysOf(data) :
        /\ ~NoCoordinatorData(data)
        /\ BuildAll(SubSeq(DaysOf(data), 1, i - 1), Get(RawDocs[data], "forecastDate"), now).exc = "none"
        /\ call' = [op |-> "build_day", doc |-> data, now |-> now, index |-> i,
                    day_data |-> DaysOf(data)[i],
                    forecast_date |-> Get(RawDocs[data], "forecastDate"),
                    date |-> _parse_day_name_to_date(Get(DaysOf(data)[i], "dayName"),
                                                     Get(RawDocs[data], "forecastDate"), now),
                    entry |-> _build_forecast_data(DaysOf(data)[i],
                                                   Get(RawDocs[data], "forecastDate"), now)]
        /\ UNCHANGED unchangedByEntity

NextWeather ==
    \/ PollSuccess
    \/ ReadState
    \/ ForecastDaily
    \/ BuildDay

SpecWeather == InitWeather /\ [][NextWeather]_vars

\* --------------------------------------------------------------- sensor.py
\* The sensors whose value depends on the hour.
SensorKeys == {"wind_speed_mph", "wind_speed_knots", "wind_direction", "wind_force",
               "rain_probability", "forecast_summary", "wind_speed_kph", "confidence"}

\* datetime.now().hour >= 18 and evening or datetime.now().hour >= 12 and
\* afternoon or morning, for non-empty names
SensorPeriod(hour, morning, afternoon, evening) ==
    IF hour >= 18 THEN evening ELSE IF hour >= 12 THEN afternoon ELSE morning

\* The f-string of each value_fn: the field a sensor reads at an hour.
SensorField(key, hour) ==
    CASE key = "wind_speed_mph" ->
            "windspeedMph" \o SensorPeriod(hour, "Morning", "Afternoon", "Evening")
      [] key = "wind_speed_knots" ->
            "windspeedKnots" \o SensorPeriod(hour, "Morning", "Afternoon", "Evening")
      [] key = "wind_direction" ->
            "windDirection" \o SensorPeriod(hour, "Morning", "Afternoon", "Evening")
      [] key = "wind_force" ->
            "windSpeedForce" \o SensorPeriod(hour, "Morning", "Afternoon", "Evening")
      [] key = "rain_probability" ->
            "rainProb" \o SensorPeriod(hour, "Morning", "Afternoon", "Evening")
      [] key = "forecast_summary" ->
            SensorPeriod(hour, "morning", "afternoon", "night") \o "Descripiton"
      [] key = "wind_speed_kph" ->
            "windspeedKM" \o SensorPeriod(hour, "Morning", "Afternoon", "Evening")
      [] key = "confidence" ->
            "confidence" \o SensorPeriod(hour, "Morning", "Afternoon", "Evening")

\* The sensors whose value_fn wraps the field in int().
SensorIsInt(key) ==
    key \in {"wind_speed_mph", "wind_speed_knots", "rain_probability", "wind_speed_kph"}

\* The second argument of get() in each value_fn.
SensorDefault(key, day_data) ==
    CASE SensorIsInt(key) -> Num(0)
      [] key = "wind_direction" -> Get(day_data, "windDirection")
      [] key = "wind_force" -> Get(day_data, "windSpeed")
      [] OTHER -> None

\* value_fn once forecastDay[0] is read.
SensorValueOfDay(key, first, field) ==
    IF first.exc # "none" THEN Exc(first.exc)
    ELSE IF SensorIsInt(key)
    THEN PyInt(GetOr(first.val, field, SensorDefault(key, first.val)))
    ELSE Ok(GetOr(first.val, field, SensorDefault(key, first.val)))

\* JerseyWeatherSensor.native_value for a sensor, with datetime.now().hour
\* as parameter
native_value(id, key, hour) ==
    IF NoCoordinatorData(id) THEN Ok(None)
    ELSE IF ~Truthy(Get(RawDocs[id], "forecastDay")) THEN Ok(None)
    ELSE SensorValueOfDay(key, FirstDay(RawDocs[id]), SensorField(key, hour))

\* The state of a sensor is read.
ReadSensor ==
    \E key \in SensorKeys, hour \in Hours :
        /\ call' = [op |-> "sensor", doc |-> data, key |-> key, hour |-> hour,
                    field |-> SensorField(key, hour),
                    value |-> native_value(data, key, hour)]
        /\ UNCHANGED unchangedByEntity

NextSensor ==
    \/ PollSuccess
    \/ ReadSensor

SpecSensor == InitWeather /\ [][NextSensor]_vars

\* ------------------------------------------------------------------ claims
\* A step that ends a fetch of the coordinator.
FetchEnds == inFlight' = inFlight - 1

\* C1: a poll cycle that ends in Failure leaves the published snapshot as it
\* was and marks the cycle failed; after any sequence of cycles the visible
\* snapshot is the document of the most recent successful fetch, or none.
C1_FailureKeepsSnapshot ==
    /\ [][(FetchEnds /\ IsFailureResp(lastResp'))
            => (data' = data /\ ~last_update_success')]_vars
    /\ [](data = lastGood)

\* A failed cycle has ended after a document was published, and the document
\* is still visible.
C1_Witness ==
    /\ lastResp.kind = "http" /\ lastResp.status = 500
    /\ ~last_update_success
    /\ data \in DocIds

\* C2: a fetch that meets a non-200 status, a transport error or a body that
\* is not JSON ends with UpdateFailed raised from _async_update_data; no
\* other exception type leaves the poller and such a fetch never returns data.
C2_OnlyUpdateFailed ==
    /\ lastResult.raised \in {"none", "UpdateFailed"}
    /\ (lastResp.kind # "none" /\ IsFailureResp(lastResp))
          => lastResult = Raised("UpdateFailed")
    /\ (lastResp.kind # "none" /\ lastResult.raised = "none")
          => (~IsFailureResp(lastResp) /\ lastResult.value = lastResp.doc)

\* A body that is not JSON ended a cycle with UpdateFailed.
C2_Witness ==
    /\ lastResp.kind = "http" /\ lastResp.status = 200 /\ lastResp.body = "badjson"
    /\ lastResult.raised = "UpdateFailed"

C4_StartupFailureIsFatal ==
    /\ (setup = "first_refresh" => inFlight = 1)
    /\ (firstRefresh = "failed"
          => (setup = "failed" /\ ~stored /\ ~platforms /\ ~listener /\ ~returnedTrue))
    /\ ((stored \/ platforms \/ listener \/ returnedTrue) => firstRefresh = "ok")
    /\ (returnedTrue => (stored /\ platforms /\ listener))

\* The startup fetch met status 500 and setup was abandoned.
C4_Witness ==
    /\ setup = "failed"
    /\ firstRefresh = "failed"
    /\ lastResp.kind = "http" /\ lastResp.status = 500

\* A step of update_listener.
ListenerRuns == listenerPending /\ ~listenerPending'

\* C5: update_listener sets the coordinator's interval to the new option
\* value and reschedules the timer without fetching: snapshot, success flag
\* and the fetches in flight are unchanged, and after setup a fetch starts
\* only when the armed timer fires.
C5_IntervalChangeReschedules ==
    [][ /\ ListenerRuns
           => /\ update_interval' = ScanIntervalOf(options)
              /\ timerArmed'
              /\ data' = data
              /\ last_update_success' = last_update_success
              /\ inFlight' = inFlight
              /\ cycles' = cycles
        /\ (setup = "done" /\ cycles' > cycles) => (timerArmed /\ ~timerArmed')
      ]_vars

\* The listener has applied a changed interval while the last cycle's failure
\* flag and snapshot are still in place.
C5_Witness ==
    /\ setup = "done"
    /\ ~listenerPending
    /\ update_interval = 30
    /\ options = 30
    /\ ~last_update_success
    /\ data \in DocIds
    /\ timerArmed

\* C6: a submitted scan_interval below 5 is rejected with an error naming the
\* lower bound, one above 1440 with an error naming the upper bound; neither
\* creates an entry nor is stored clamped; a value in 5..1440 is accepted and
\* stored unchanged.
C6_OptionsRangeChecked ==
    /\ (options # NoOption => options \in MIN_SCAN_INTERVAL..MAX_SCAN_INTERVAL)
    /\ (flowResult.type = "create_entry" \/ flowResult.error # "none")
          => /\ (flowResult.input < 5
                   => flowResult = ShowForm(flowResult.input, "Value must be at least", 5))
             /\ (flowResult.input > 1440
                   => flowResult = ShowForm(flowResult.input, "Value must be at most", 1440))
             /\ (flowResult.input \in 5..1440
                   => /\ flowResult = CreateEntry(flowResult.input, flowResult.input)
                      /\ options = flowResult.input)

\* 1441 was submitted and rejected after 1440 had been accepted and stored.
C6_Witness ==
    /\ flowResult.type = "form"
    /\ flowResult.input = 1441
    /\ options = 1440

\* C7: for every hour h in 0..23 the time-of-day resolver returns exactly one
\* of Morning, Afternoon, Evening: Morning exactly for 5..11, Afternoon
\* exactly for 12..17, Evening exactly for 18..23 and 0..4.
C7_TimeOfDayPartition ==
    call.op = "state" =>
        /\ call.now.hour \in 0..23
        /\ call.time_of_day \in {"Morning", "Afternoon", "Evening"}
        /\ (call.time_of_day = "Morning") <=> (call.now.hour \in 5..11)
        /\ (call.time_of_day = "Afternoon") <=> (call.now.hour \in 12..17)
        /\ (call.time_of_day = "Evening") <=> (call.now.hour \in (18..23) \cup (0..4))

\* C7 witness: the state is read at 04:00 and the period is Evening.
C7_Witness ==
    call.op = "state" /\ call.now.hour = 4 /\ call.time_of_day = "Evening"

\* C8: building the snapshot never raises: whatever keys are missing,
\* sequences are empty or field texts are malformed, each current-value
\* accessor and the per-day forecast normaliser return a value, with the
\* date and the precipitation still produced.
C8_NeverRaises ==
    /\ call.op = "state" =>
        /\ call.condition.exc = "none"
        /\ call.native_temperature.exc = "none"
        /\ call.wind_bearing.exc = "none"
        /\ call.native_wind_speed.exc = "none"
    /\ call.op = "build_day" =>
        /\ call.entry.exc = "none"
        /\ {"datetime", "precipitation_probability"} \subseteq DOMAIN call.entry.val
    /\ call.op = "forecast_daily" => call.out.exc = "none"

\* The value of a rain period as C9 counts it: 0 when missing or unparseable.
C9_RainOrZero(r) == IF r.exc = "none" THEN r.val.n ELSE 0

\* C9: for every forecast day the precipitation probability is the maximum
\* of the three period values, each missing or unparseable one counting as
\* 0, and is an integer in 0..100.
C9_PrecipIsMaxInRange ==
    call.op = "build_day" =>
        /\ call.entry.exc = "none"
        /\ call.entry.val["precipitation_probability"] =
              Num(Max3(C9_RainOrZero(PrecipProbs(call.day_data)[1]),
                       C9_RainOrZero(PrecipProbs(call.day_data)[2]),
                       C9_RainOrZero(PrecipProbs(call.day_data)[3])))
        /\ call.entry.val["precipitation_probability"].n \in 0..100

\* A day name that parses as '<weekday> <day> <month-abbrev>': the pattern
\* matches, the abbreviation is one of the twelve and the day exists.
C10_NameParses(m, now) ==
    /\ m.matched
    /\ \E k \in DOMAIN month_map : month_map[k] = m.month
    /\ MakeDatetime(YearOf(MonthOf(m.month, now.month), now),
                    MonthOf(m.month, now.month), DigitsValue(m.day)).exc = "none"

\* The date by the rule order of C10 for a textual or absent day name.
C10_Expected(day_name, forecast_date, now) ==
    IF day_name.t = "str" /\ day_name.s = Today THEN NoonOfDate(now)
    ELSE IF day_name.t = "str" /\ day_name.s = Tomorrow THEN NoonOfDate(NextDay(now))
    ELSE IF day_name.t = "str" /\ C10_NameParses(ReMatchDayName(day_name.s), now)
    THEN MakeDatetime(YearOf(MonthOf(ReMatchDayName(day_name.s).month, now.month), now),
                      MonthOf(ReMatchDayName(day_name.s).month, now.month),
                      DigitsValue(ReMatchDayName(day_name.s).day)).val
    ELSE IF forecast_date.t = "str" /\ Strptime(forecast_date.s).exc = "none"
    THEN Strptime(forecast_date.s).val
    ELSE NoonOfDate(now)

\* C10: the date of a forecast day is given by the first rule that applies:
\* Today, Tomorrow, a day name that parses as '<weekday> <day>
\* <month-abbrev>', the forecastDate hint, the current date. A day name
\* that does not parse (no match, unrecognised month abbreviation,
\* impossible day) falls through to the hint and then to the current date.
\* The result is never null and carries the time 12:00:00.
C10_DateByFirstRule ==
    call.op = "build_day" =>
        /\ call.date.exc = "none"
        /\ call.date.val.t = "datetime"
        /\ call.date.val.time = "12:00:00"
        /\ call.date.val = C10_Expected(Get(call.day_data, "dayName"), call.forecast_date, call.now)

\* The text C11 and C12 choose from a day: the period field when present and
\* non-empty, otherwise the day-level field, otherwise null.
C11_Chosen(day, period_key, day_key) ==
    IF period_key \in DOMAIN day /\ day[period_key].t = "str" /\ day[period_key].s # <<>>
    THEN day[period_key]
    ELSE IF day_key \in DOMAIN day THEN day[day_key]
    ELSE None

\* The entry of a table for a text: its value, null for an unmapped text.
C11_Mapped(table, text) ==
    IF text.t = "str" /\ \E i \in DOMAIN table : table[i][1] = text.s
    THEN table[CHOOSE i \in DOMAIN table : table[i][1] = text.s][2]
    ELSE None

\* C11: the current condition is the condition-table entry of the tooltip of
\* forecastDay[0] for the period of the current hour (iconMorningToolTip,
\* iconAfternoonToolTip, iconEveningToolTip) when that field is present and
\* non-empty, otherwise of dayToolTip; it is null when forecastDay is empty,
\* when neither field is present and when the text is unmapped.
C11_CurrentCondition ==
    call.op = "state" =>
        /\ call.condition.exc = "none"
        /\ DaysOf(call.doc) = <<>> => call.condition.val = None
        /\ DaysOf(call.doc) # <<>> =>
              call.condition.val =
                  C11_Mapped(TOOLTIP_CONDITION_MAP,
                             C11_Chosen(DaysOf(call.doc)[1],
                                        "icon" \o call.time_of_day \o "ToolTip", "dayToolTip"))

\* C11 witness: in the morning the period tooltip is empty and the condition
\* comes from dayToolTip "Rain".
C11_Witness ==
    /\ call.op = "state"
    /\ call.time_of_day = "Morning"
    /\ DaysOf(call.doc) # <<>>
    /\ Get(DaysOf(call.doc)[1], "iconMorningToolTip") = Str(<<>>)
    /\ call.condition = Ok(Str(<<"r", "a", "i", "n", "y">>))

\* The number a text parses to, null when it does not parse or is no text.
C12_Number(text) ==
    IF text.t = "str" /\ PyFloatText(text.s).exc = "none" THEN PyFloatText(text.s).val
    ELSE None

\* C12: the current wind speed is the mph field of forecastDay[0] for the
\* active period (windspeedMphMorning, windspeedMphAfternoon,
\* windspeedMphEvening) parsed as a number, the day-level windSpeedMPH when
\* the period field is absent or empty; null when forecastDay is empty, when
\* neither field is present and when the chosen value does not parse. The
\* force code windSpeed plays no part.
C12_CurrentWindSpeed ==
    call.op = "state" =>
        /\ call.native_wind_speed.exc = "none"
        /\ DaysOf(call.doc) = <<>> => call.native_wind_speed.val = None
        /\ DaysOf(call.doc) # <<>> =>
              call.native_wind_speed.val =
                  C12_Number(C11_Chosen(DaysOf(call.doc)[1],
                                        "windspeedMph" \o call.time_of_day, "windSpeedMPH"))

\* C12 witness: in the morning the period field is empty and the speed is
\* the day-level 9.5 mph, although the day carries a force code.
C12_Witness ==
    /\ call.op = "state"
    /\ call.time_of_day = "Morning"
    /\ DaysOf(call.doc) # <<>>
    /\ Get(DaysOf(call.doc)[1], "windspeedMphMorning") = Str(<<>>)
    /\ "windSpeed" \in DOMAIN DaysOf(call.doc)[1]
    /\ call.native_wind_speed = Ok(Flt(95))

\* C13: the forecast sequence has exactly one entry per element of the raw
\* forecastDay, in the same order, entry i being the normalisation of
\* forecastDay[i] with the document's forecastDate as hint; an empty
\* forecastDay yields an empty forecast sequence, with every current value
\* null except the temperature.
C13_OneEntryPerDay ==
    /\ call.op = "forecast_daily" =>
        /\ call.out.exc = "none"
        /\ ~call.out.isNone
        /\ Len(call.out.list) = Len(DaysOf(call.doc))
        /\ \A i \in DOMAIN DaysOf(call.doc) :
              Ok(call.out.list[i]) =
                  _build_forecast_data(DaysOf(call.doc)[i],
                                       Get(RawDocs[call.doc], "forecastDate"), call.now)
    /\ (call.op = "state" /\ DaysOf(call.doc) = <<>>) =>
        /\ call.condition = Ok(None)
        /\ call.wind_bearing = Ok(None)
        /\ call.native_wind_speed = Ok(None)
        /\ call.native_temperature =
              _extract_temp_value(Get(RawDocs[call.doc], "currentTemprature"))

\* The conditions of the Glossary, with 'partly-cloudy'.
C14_Glossary == {
    Str(<<"c", "l", "e", "a", "r", "-", "n", "i", "g", "h", "t">>),
    Str(<<"c", "l", "o", "u", "d", "y">>),
    Str(<<"f", "o", "g">>),
    Str(<<"h", "a", "i", "l">>),
    Str(<<"l", "i", "g", "h", "t", "n", "i", "n", "g">>),
    Str(<<"l", "i", "g", "h", "t", "n", "i", "n", "g", "-", "r", "a", "i", "n", "y">>),
    Str(<<"p", "a", "r", "t", "l", "y", "-", "c", "l", "o", "u", "d", "y">>),
    Str(<<"p", "o", "u", "r", "i", "n", "g">>),
    Str(<<"r", "a", "i", "n", "y">>),
    Str(<<"s", "n", "o", "w", "y">>),
    Str(<<"s", "n", "o", "w", "y", "-", "r", "a", "i", "n", "y">>),
    Str(<<"s", "u", "n", "n", "y">>),
    Str(<<"w", "i", "n", "d", "y">>),
    Str(<<"w", "i", "n", "d", "y", "-", "v", "a", "r", "i", "a", "n", "t">>),
    Str(<<"e", "x", "c", "e", "p", "t", "i", "o", "n", "a", "l">>)}

\* The conditions of the weather platform, with 'partlycloudy'.
C14_PlatformConditions == {
    Str(<<"c", "l", "e", "a", "r", "-", "n", "i", "g", "h", "t">>),
    Str(<<"c", "l", "o", "u", "d", "y">>),
    Str(<<"f", "o", "g">>),
    Str(<<"h", "a", "i", "l">>),
    Str(<<"l", "i", "g", "h", "t", "n", "i", "n", "g">>),
    Str(<<"l", "i", "g", "h", "t", "n", "i", "n", "g", "-", "r", "a", "i", "n", "y">>),
    Str(<<"p", "a", "r", "t", "l", "y", "c", "l", "o", "u", "d", "y">>),
    Str(<<"p", "o", "u", "r", "i", "n", "g">>),
    Str(<<"r", "a", "i", "n", "y">>),
    Str(<<"s", "n", "o", "w", "y">>),
    Str(<<"s", "n", "o", "w", "y", "-", "r", "a", "i", "n", "y">>),
    Str(<<"s", "u", "n", "n", "y">>),
    Str(<<"w", "i", "n", "d", "y">>),
    Str(<<"w", "i", "n", "d", "y", "-", "v", "a", "r", "i", "a", "n", "t">>),
    Str(<<"e", "x", "c", "e", "p", "t", "i", "o", "n", "a", "l">>)}

\* The tooltip a read of the current condition looks up.
C14_Tooltip == C11_Chosen(DaysOf(call.doc)[1], "icon" \o call.time_of_day \o "ToolTip", "dayToolTip")

\* C14 as stated: every condition produced, current or of a forecast day, is
\* null or a member of the Glossary set {clear-night, cloudy, fog, hail,
\* lightning, lightning-rainy, partly-cloudy, pouring, rainy, snowy,
\* snowy-rainy, sunny, windy, windy-variant, exceptional}.
C14_ConditionInGlossary ==
    /\ call.op = "state" =>
        /\ call.condition.exc = "none"
        /\ call.condition.val \in C14_Glossary \cup {None}
    /\ (call.op = "build_day" /\ call.entry.exc = "none"
            /\ "condition" \in DOMAIN call.entry.val) =>
        call.entry.val["condition"] \in C14_Glossary

\* C14 amended: every condition produced, current or of a forecast day, is
\* null or a member of the platform's set, which spells the partly cloudy
\* condition 'partlycloudy'; the lookup is an exact match, so a text that is
\* not character for character a key of the table yields null and no
\* exception.
C14_ConditionInPlatformSet ==
    /\ \A i \in DOMAIN TOOLTIP_CONDITION_MAP :
          TOOLTIP_CONDITION_MAP[i][2] \in C14_PlatformConditions
    /\ call.op = "state" =>
        /\ call.condition.exc = "none"
        /\ call.condition.val \in C14_PlatformConditions \cup {None}
        /\ (DaysOf(call.doc) # <<>>
                /\ \A i \in DOMAIN TOOLTIP_CONDITION_MAP :
                      TOOLTIP_CONDITION_MAP[i][1] # C14_Tooltip.s) =>
              call.condition.val = None
    /\ (call.op = "build_day" /\ call.entry.exc = "none") =>
        /\ "condition" \in DOMAIN call.entry.val =>
              call.entry.val["condition"] \in C14_PlatformConditions
        /\ (\A i \in DOMAIN TOOLTIP_CONDITION_MAP :
                TOOLTIP_CONDITION_MAP[i][1] # Get(call.day_data, "dayToolTip").s) =>
              /\ "condition" \notin DOMAIN call.entry.val
              /\ _get_condition_from_tooltip(Get(call.day_data, "dayToolTip")).exc = "none"

\* C14 witness: the tooltip "Mainly sunny" gives the current condition
\* 'partlycloudy'.
C14_Witness ==
    /\ call.op = "state"
    /\ DaysOf(call.doc) # <<>>
    /\ C14_Tooltip = Str(<<"M", "a", "i", "n", "l", "y", " ", "s", "u", "n", "n", "y">>)
    /\ call.condition = Ok(Str(<<"p", "a", "r", "t", "l", "y", "c", "l", "o", "u", "d", "y">>))

\* A text without its trailing degree-Celsius marker, when it ends in one.
C15_StripTrailing(s) ==
    IF Len(s) >= 2 /\ SubSeq(s, Len(s) - 1, Len(s)) = DegreeC
    THEN SubSeq(s, 1, Len(s) - 2)
    ELSE s

\* The temperature of a raw field when only a trailing marker is removed.
C15_TrailingOnly(v) ==
    IF v.t = "str" /\ v.s # <<>> THEN C12_Number(Str(C15_StripTrailing(v.s))) ELSE None

\* The temperature of a raw field when every marker is removed.
C15_EveryMarker(v) ==
    IF v.t = "str" /\ v.s # <<>> THEN C12_Number(Str(RemoveAll(v.s, DegreeC))) ELSE None

\* The forecast field of an entry, null when the entry does not carry it.
C15_Field(entry, key) == IF key \in DOMAIN entry THEN entry[key] ELSE None

\* C15 as stated: the current temperature is the number in currentTemprature
\* with a trailing degree-Celsius marker removed, and null without an
\* exception when the field is absent, None, empty or no number after
\* stripping; the same for a day's maxTemp and minTemp, each on its own.
C15_TrailingMarkerRemoved ==
    /\ call.op = "state" =>
        call.native_temperature =
            Ok(C15_TrailingOnly(Get(RawDocs[call.doc], "currentTemprature")))
    /\ (call.op = "build_day" /\ call.entry.exc = "none") =>
        /\ C15_Field(call.entry.val, "native_temperature") =
              C15_TrailingOnly(Get(call.day_data, "maxTemp"))
        /\ C15_Field(call.entry.val, "native_templow") =
              C15_TrailingOnly(Get(call.day_data, "minTemp"))

\* C15 amended: the current temperature is the number in currentTemprature
\* with every occurrence of the degree-Celsius marker removed, and null
\* without an exception when the field is absent, None, empty or no number
\* after the removal; the same for a day's maxTemp and minTemp, each on its
\* own.
C15_EveryMarkerRemoved ==
    /\ call.op = "state" =>
        call.native_temperature =
            Ok(C15_EveryMarker(Get(RawDocs[call.doc], "currentTemprature")))
    /\ (call.op = "build_day" /\ call.entry.exc = "none") =>
        /\ C15_Field(call.entry.val, "native_temperature") =
              C15_EveryMarker(Get(call.day_data, "maxTemp"))
        /\ C15_Field(call.entry.val, "native_templow") =
              C15_EveryMarker(Get(call.day_data, "minTemp"))

\* C15 witness: currentTemprature '24°C' gives 24.0.
C15_Witness ==
    /\ call.op = "state"
    /\ Get(RawDocs[call.doc], "currentTemprature") = Str(<<"2", "4", "deg", "C">>)
    /\ call.native_temperature = Ok(Flt(240))

\* The 16 compass points clockwise from N.
C16_Compass == <<
    <<"N">>, <<"N", "N", "E">>, <<"N", "E">>, <<"E", "N", "E">>, <<"E">>, <<"E", "S", "E">>, <<"S", "E">>, <<"S", "S", "E">>,
    <<"S">>, <<"S", "S", "W">>, <<"S", "W">>, <<"W", "S", "W">>, <<"W">>, <<"W", "N", "W">>, <<"N", "W">>, <<"N", "N", "W">>>>

\* The bearing of a code: k * 22.5 degrees for the k-th point clockwise from
\* N, k = 0..15, null for any other code.
C16_Bearing(code) ==
    IF code.t = "str" /\ \E k \in DOMAIN C16_Compass : C16_Compass[k] = code.s
    THEN Flt(((CHOOSE k \in DOMAIN C16_Compass : C16_Compass[k] = code.s) - 1) * 225)
    ELSE None

\* C16: the current wind bearing is the compass bearing of
\* forecastDay[0].windDirection whatever the hour: the table has exactly the
\* 16 compass points, the k-th point clockwise from N maps to k * 22.5
\* degrees, and an unknown or absent code, or an empty forecastDay, gives
\* null.
C16_CurrentBearing ==
    /\ Len(WIND_DIRECTION_MAP) = 16
    /\ \A k \in DOMAIN C16_Compass :
          _get_wind_bearing_from_direction(Str(C16_Compass[k])) = Ok(Flt((k - 1) * 225))
    /\ call.op = "state" =>
          call.wind_bearing =
              Ok(IF DaysOf(call.doc) = <<>> THEN None
                 ELSE C16_Bearing(Get(DaysOf(call.doc)[1], "windDirection")))

\* C16 witness: windDirection NNE is read in the evening and gives 22.5.
C16_Witness ==
    /\ call.op = "state"
    /\ call.time_of_day = "Evening"
    /\ DaysOf(call.doc) # <<>>
    /\ Get(DaysOf(call.doc)[1], "windDirection") = Str(<<"N", "N", "E">>)
    /\ call.wind_bearing = Ok(Flt(225))

\* The year of C18 for a parsed month: the current year plus one exactly
\* when the month is January or February and the current month is later.
C18_Year(month, now) ==
    IF month \in {1, 2} /\ now.month > month THEN now.year + 1 ELSE now.year

\* The day name of the observed day, as matched by the pattern.
C18_Match == ReMatchDayName(Get(call.day_data, "dayName").s)

\* The month number the matched abbreviation names.
C18_Month == MonthNumber(month_map, C18_Match.month)

\* C18: when a dayName parses as '<weekday> <day> <month-abbrev>' the
\* resolved year is the current year, except that it is the current year
\* plus one exactly when the parsed month is January or February and the
\* current month is numerically later.
C18_YearRollover ==
    (/\ call.op = "build_day"
     /\ Get(call.day_data, "dayName").t = "str"
     /\ C18_Match.matched
     /\ \E k \in DOMAIN month_map : month_map[k] = C18_Match.month
     /\ ~DigitsValue(C18_Match.day).big
     /\ DigitsValue(C18_Match.day).v \in
            1..DaysInMonth(C18_Year(C18_Month, call.now), C18_Month))
    => call.date = Ok(NoonOf(C18_Year(C18_Month, call.now), C18_Month,
                             DigitsValue(C18_Match.day).v))

\* C18 witness: 'Thu 1 Jan' read on 31 December 2025 is 1 January 2026.
C18_Witness ==
    /\ call.op = "build_day"
    /\ call.now.year = 2025 /\ call.now.month = 12
    /\ Get(call.day_data, "dayName") = Str(<<"T", "h", "u", " ", "1", " ", "J", "a", "n">>)
    /\ call.date = Ok(NoonOf(2026, 1, 1))

\* The day-level field of a sensor, for the metrics that have one.
C19_DayKeys(key) ==
    CASE key = "wind_direction" -> {"windDirection"}
      [] key = "wind_force" -> {"windSpeed"}
      [] OTHER -> {}

\* The fallback chain of C19: the period field when present and non-empty,
\* otherwise the day-level field of the metric, otherwise null.
C19_Chosen(day, field, day_keys) ==
    IF field \in DOMAIN day /\ day[field].t = "str" /\ day[field].s # <<>>
    THEN day[field]
    ELSE IF day_keys \cap DOMAIN day # {}
    THEN day[CHOOSE k \in day_keys \cap DOMAIN day : TRUE]
    ELSE None

\* A chosen text as the sensor reports it: a number for the numeric sensors.
C19_Reported(key, chosen) ==
    IF chosen.t = "str" /\ SensorIsInt(key) /\ PyInt(chosen).exc = "none"
    THEN PyInt(chosen).val
    ELSE chosen

\* C19: every period-resolved sensor value follows the same fallback chain:
\* the period-suffixed field of forecastDay[0] when present and non-empty,
\* otherwise the day-level field if the metric has one (windDirection for
\* wind direction, windSpeed for wind force), otherwise null; identically
\* for rain probability, the mph, knots and kph wind speeds, wind
\* direction, wind force, confidence and the narrative description.
C19_SameFallbackChain ==
    (call.op = "sensor" /\ DaysOf(call.doc) # <<>>) =>
        /\ call.value.exc = "none"
        /\ call.value.val =
              C19_Reported(call.key, C19_Chosen(DaysOf(call.doc)[1], call.field,
                                                 C19_DayKeys(call.key)))

\* The force scale F0..F12 in tenths of m/s.
C20_Scale == <<0, 5, 20, 40, 60, 90, 120, 150, 190, 230, 270, 310, 340>>

\* The code of force n: "F" followed by the decimal digits of n.
C20_Code(n) ==
    LET digit == <<"0", "1", "2", "3", "4", "5", "6", "7", "8", "9">>
    IN  IF n < 10 THEN <<"F", digit[n + 1]>>
        ELSE <<"F", digit[(n \div 10) + 1], digit[(n % 10) + 1]>>

\* The speed of a force code: the scale value of F0..F12, null otherwise.
C20_Speed(code) ==
    IF code.t = "str" /\ \E n \in 0..12 : C20_Code(n) = code.s
    THEN Flt(C20_Scale[(CHOOSE n \in 0..12 : C20_Code(n) = code.s) + 1])
    ELSE None

\* C20: the wind speed of every forecast day that is built is the
\* force-table value of the day's windSpeed code over the 13-entry scale
\* F0..F12 (F3 gives 4.0, F4 gives 6.0) and is null for an absent or unknown
\* code such as F99, whatever the mph, knots and kph fields of the day
\* hold; the wind bearing of the day is the compass bearing of its
\* windDirection.
C20_ForecastWindFromForce ==
    /\ Len(WIND_FORCE_TO_SPEED) = 13
    /\ \A n \in 0..12 :
          _get_wind_speed_from_force(Str(C20_Code(n))) = Ok(Flt(C20_Scale[n + 1]))
    /\ _get_wind_speed_from_force(Str(<<"F", "9", "9">>)) = Ok(None)
    /\ (call.op = "build_day" /\ call.entry.exc = "none") =>
          /\ Get(call.entry.val, "native_wind_speed") =
                C20_Speed(Get(call.day_data, "windSpeed"))
          /\ Get(call.entry.val, "wind_bearing") =
                C16_Bearing(Get(call.day_data, "windDirection"))

\* C20 witness: a day with windSpeed F3 and mph readings of 10, 15, 8 and 12
\* is built with wind speed 4.0 and the bearing of SW.
C20_Witness ==
    /\ call.op = "build_day"
    /\ call.entry.exc = "none"
    /\ Get(call.day_data, "windSpeed") = Str(<<"F", "3">>)
    /\ Get(call.day_data, "windSpeedMPH") = Str(<<"1", "2">>)
    /\ Get(call.day_data, "windspeedMphAfternoon") = Str(<<"1", "5">>)
    /\ call.entry.val["native_wind_speed"] = Flt(40)
    /\ call.entry.val["wind_bearing"] = Flt(2250)

\* The field a sensor has for a period: the Evening field of the forecast
\* summary is named "night".
C21_Field(key, time_of_day) ==
    CASE key = "wind_speed_mph" -> "windspeedMph" \o time_of_day
      [] key = "wind_speed_knots" -> "windspeedKnots" \o time_of_day
      [] key = "wind_speed_kph" -> "windspeedKM" \o time_of_day
      [] key = "wind_direction" -> "windDirection" \o time_of_day
      [] key = "wind_force" -> "windSpeedForce" \o time_of_day
      [] key = "rain_probability" -> "rainProb" \o time_of_day
      [] key = "confidence" -> "confidence" \o time_of_day
      [] key = "forecast_summary" ->
            (CASE time_of_day = "Morning" -> "morning"
               [] time_of_day = "Afternoon" -> "afternoon"
               [] OTHER -> "night") \o "Descripiton"

\* C21: at every hour 0..23 each time-of-day-aware sensor (wind speed in
\* mph, knots and kph, wind direction, wind force, rain probability,
\* confidence, forecast summary) reads the field of the period that the
\* weather entity's _get_time_of_day selects for that hour.
C21_SensorsFollowTimeOfDay ==
    call.op = "sensor" =>
        /\ call.hour \in 0..23
        /\ call.field = C21_Field(call.key, _get_time_of_day(call.hour))
====
